---- MODULE Spec2Model ----
(***************************************************************************)
(* The EV form of web/app/page.tsx (the EVPage component of lines 83-628): *)
(* its form state, the slug effect, the field handlers, handleSubmit with  *)
(* its three suspension points, and the pure helpers it calls.             *)
(*                                                                         *)
(* Representation.  A JavaScript string is a sequence of one-character     *)
(* strings (message texts are sequences of longer chunks), so that split,  *)
(* trim, toUpperCase and Number are computed character by character.       *)
(* null and NaN are the empty tuple and a present value v is <<v>>.  A     *)
(* numeric form field (number | "") is <<n>> or the empty string <<>>.     *)
(* Numbers are integers; the fee is counted in thousandths of a dollar     *)
(* (the step of its input), so the initial 0.01 is 10.                     *)
(***************************************************************************)
EXTENDS Integers, Sequences, FiniteSets, TLC

VARIABLES
  slug, side, quarter, clock, homeScore, awayScore, homeHasBall,
  yardlineLabel, down, ydstogo, feeCost,      \* form fields (page.tsx 85-102)
  loading, error, result,                     \* network + result state (105-107)
  slugTeams, homeTeam, awayTeam,              \* teams (110-120)
  yardlineError,                              \* field-level error (123)
  effectPending,                              \* the [slug] effect is scheduled
  pending,                                    \* handleSubmit calls suspended at an await
  lastOutcome,                                \* how the last finished submission ended
  edits,                                      \* user edits so far
  call, ret                                   \* a direct call of a pure helper, its result

formVars == <<slug, side, quarter, clock, homeScore, awayScore, homeHasBall,
              yardlineLabel, down, ydstogo, feeCost, slugTeams, homeTeam, awayTeam>>
netVars == <<loading, error, result, yardlineError>>
uiVars == <<formVars, netVars, effectPending, pending, lastOutcome, edits>>
vars == <<uiVars, call, ret>>

----------------------------------------------------------------------------
(* Bounds of the model *)

\* user edits explored per run of the page
MaxEdits == 2
\* longest raw clock string handed to computeSecondsRemaining
MaxClockLen == 5
\* largest quarter handed to computeSecondsRemaining
MaxQuarter == 6
\* largest minutes and seconds values of a formatted clock
MaxMinutes == 16
MaxSeconds == 59
\* largest yards value of a formatted yardline label (the least is its negation)
MaxYards == 105
\* most hyphen-separated tokens of a slug handed to parseTeamsFromSlug
MaxSlugTokens == 4

----------------------------------------------------------------------------
(* Values *)

Null == <<>>
Some(v) == <<v>>
NaN == <<>>
EmptyString == <<>>

Digits == <<"0", "1", "2", "3", "4", "5", "6", "7", "8", "9">>
LowerLetters == <<"a","b","c","d","e","f","g","h","i","j","k","l","m",
                  "n","o","p","q","r","s","t","u","v","w","x","y","z">>
UpperLetters == <<"A","B","C","D","E","F","G","H","I","J","K","L","M",
                  "N","O","P","Q","R","S","T","U","V","W","X","Y","Z">>

IndexIn(c, table) == IF \E i \in 1..Len(table) : table[i] = c
                     THEN CHOOSE i \in 1..Len(table) : table[i] = c
                     ELSE 0

IsDigit(c) == IndexIn(c, Digits) > 0
DigitValue(c) == IndexIn(c, Digits) - 1
IsWhitespace(c) == c = " "

UpperChar(c) == IF IndexIn(c, LowerLetters) > 0 THEN UpperLetters[IndexIn(c, LowerLetters)] ELSE c
LowerChar(c) == IF IndexIn(c, UpperLetters) > 0 THEN LowerLetters[IndexIn(c, UpperLetters)] ELSE c

\* String.prototype.toUpperCase / toLowerCase
toUpperCase(s) == [i \in 1..Len(s) |-> UpperChar(s[i])]
toLowerCase(s) == [i \in 1..Len(s) |-> LowerChar(s[i])]

\* String.prototype.trim
RECURSIVE TrimStart(_)
TrimStart(s) == IF s /= <<>> /\ IsWhitespace(s[1]) THEN TrimStart(Tail(s)) ELSE s
RECURSIVE TrimEnd(_)
TrimEnd(s) == IF s /= <<>> /\ IsWhitespace(s[Len(s)]) THEN TrimEnd(SubSeq(s, 1, Len(s) - 1)) ELSE s
trim(s) == TrimEnd(TrimStart(s))

\* String.prototype.split(sep) for a one-character separator: empty parts are kept
RECURSIVE split(_, _)
split(s, sep) ==
  IF \E i \in 1..Len(s) : s[i] = sep
  THEN LET i == CHOOSE k \in 1..Len(s) : s[k] = sep /\ \A j \in 1..(k - 1) : s[j] /= sep
       IN  <<SubSeq(s, 1, i - 1)>> \o split(SubSeq(s, i + 1, Len(s)), sep)
  ELSE <<s>>

\* String.prototype.split(/\s+/): a maximal run of whitespace is one separator
RECURSIVE splitWhitespace(_)
splitWhitespace(s) ==
  IF \E i \in 1..Len(s) : IsWhitespace(s[i])
  THEN LET i == CHOOSE k \in 1..Len(s) :
                  IsWhitespace(s[k]) /\ \A j \in 1..(k - 1) : ~IsWhitespace(s[j])
       IN  <<SubSeq(s, 1, i - 1)>> \o splitWhitespace(TrimStart(SubSeq(s, i, Len(s))))
  ELSE <<s>>

RECURSIVE DecimalValue(_)
DecimalValue(s) ==
  IF s = <<>> THEN 0
  ELSE DecimalValue(SubSeq(s, 1, Len(s) - 1)) * 10 + DigitValue(s[Len(s)])

\* Number(string): whitespace is trimmed, the empty string is 0, an optionally
\* signed run of decimal digits is its value, anything else is NaN.  The
\* strings of the model hold no ".", no exponent and no radix prefix.
Number(s) ==
  LET t == trim(s)
      signed == t /= <<>> /\ t[1] \in {"-", "+"}
      body == IF signed THEN Tail(t) ELSE t
  IN  IF t = <<>> THEN Some(0)
      ELSE IF body /= <<>> /\ \A i \in 1..Len(body) : IsDigit(body[i])
           THEN Some(IF t[1] = "-" THEN 0 - DecimalValue(body) ELSE DecimalValue(body))
           ELSE NaN

IsNaN(x) == x = NaN

MathMin(a, b) == IF a < b THEN a ELSE b
MathMax(a, b) == IF a > b THEN a ELSE b

----------------------------------------------------------------------------
(* The pure helpers of page.tsx *)

\* computeSecondsRemaining without the Math.max(0, ...) floor on the full quarters
computeSecondsRemaining_NoFloor(q, clk) ==
  LET parts == split(clk, ":")
  IN  IF Len(parts) /= 2 THEN 0
      ELSE LET mm == Number(parts[1])
               ss == Number(parts[2])
           IN  IF IsNaN(mm) \/ IsNaN(ss) THEN 0
               ELSE mm[1] * 60 + ss[1] + (4 - q) * 15 * 60

\* computeSecondsRemaining(quarter, clock), page.tsx 18-28
computeSecondsRemaining(q, clk) ==
  LET parts == split(clk, ":")
  IN  IF Len(parts) /= 2 THEN 0
      ELSE LET mm == Number(parts[1])
               ss == Number(parts[2])
           IN  IF IsNaN(mm) \/ IsNaN(ss) THEN 0
               ELSE LET remainingThisQuarter == mm[1] * 60 + ss[1]
                        remainingFullQuarters == MathMax(0, 4 - q) * 15 * 60
                    IN  remainingThisQuarter + remainingFullQuarters

DefaultTeam1 == <<"T", "E", "A", "M", "1">>
DefaultTeam2 == <<"T", "E", "A", "M", "2">>
NflToken == <<"n", "f", "l">>

\* parts.findIndex(p => p.toLowerCase() === "nfl"), as a 0-based index or -1
findNflIndex(parts) ==
  IF \E i \in 1..Len(parts) : toLowerCase(parts[i]) = NflToken
  THEN (CHOOSE i \in 1..Len(parts) :
          /\ toLowerCase(parts[i]) = NflToken
          /\ \A j \in 1..(i - 1) : toLowerCase(parts[j]) /= NflToken) - 1
  ELSE -1

\* parseTeamsFromSlug that upper-cases the first code only
parseTeamsFromSlug_SecondAsTyped(s) ==
  LET parts == split(s, "-")
      nflIdx == findNflIndex(parts)
  IN  IF nflIdx /= -1 /\ Len(parts) >= nflIdx + 3
      THEN [team1 |-> toUpperCase(parts[nflIdx + 2]), team2 |-> parts[nflIdx + 3]]
      ELSE IF Len(parts) >= 3
           THEN [team1 |-> toUpperCase(parts[2]), team2 |-> parts[3]]
           ELSE [team1 |-> DefaultTeam1, team2 |-> DefaultTeam2]

\* parseTeamsFromSlug(slug), page.tsx 32-47 (parts[k] of the code is parts[k + 1] here)
parseTeamsFromSlug(s) ==
  LET parts == split(s, "-")
      nflIdx == findNflIndex(parts)
  IN  IF nflIdx /= -1 /\ Len(parts) >= nflIdx + 3
      THEN [team1 |-> toUpperCase(parts[nflIdx + 2]), team2 |-> toUpperCase(parts[nflIdx + 3])]
      ELSE IF Len(parts) >= 3
           THEN [team1 |-> toUpperCase(parts[2]), team2 |-> toUpperCase(parts[3])]
           ELSE [team1 |-> DefaultTeam1, team2 |-> DefaultTeam2]

\* parseYardlineLabel that measures an away-side label from the wrong end zone
parseYardlineLabel_AwayUnflipped(label, home, away) ==
  LET trimmed == trim(label)
  IN  IF trimmed = EmptyString THEN Null
      ELSE LET parts == splitWhitespace(trimmed)
           IN  IF Len(parts) /= 2 THEN Null
               ELSE LET team == toUpperCase(parts[1])
                        y == Number(parts[2])
                    IN  IF IsNaN(y) THEN Null
                        ELSE IF team = toUpperCase(home) \/ team = toUpperCase(away)
                             THEN Some(MathMin(100, MathMax(0, y[1])))
                        ELSE Null

\* parseYardlineLabel(label, homeTeam, awayTeam), page.tsx 57-81: <<n>> or null
parseYardlineLabel(label, home, away) ==
  LET trimmed == trim(label)
  IN  IF trimmed = EmptyString THEN Null
      ELSE LET parts == splitWhitespace(trimmed)
           IN  IF Len(parts) /= 2 THEN Null
               ELSE LET team == toUpperCase(parts[1])
                        y == Number(parts[2])
                    IN  IF IsNaN(y) THEN Null
                        ELSE IF team = toUpperCase(home)
                             THEN Some(MathMin(100, MathMax(0, y[1])))
                        ELSE IF team = toUpperCase(away)
                             THEN Some(MathMin(100, MathMax(0, 100 - y[1])))
                        ELSE Null

\* typeof value === "number": a numeric field is <<n>> or the empty string
IsNumberValue(value) == Len(value) = 1

\* parseOrDefault(value, fallback), page.tsx 136-138 (a field never holds NaN:
\* every onChange drops it)
parseOrDefault(value, fallback) == IF IsNumberValue(value) THEN value[1] ELSE fallback

----------------------------------------------------------------------------
(* Number -> string, as a template literal or String(n) renders an integer *)

RECURSIVE NatToString(_)
NatToString(n) == IF n < 10 THEN <<Digits[n + 1]>>
                  ELSE NatToString(n \div 10) \o <<Digits[(n % 10) + 1]>>
IntToString(n) == IF n < 0 THEN <<"-">> \o NatToString(0 - n) ELSE NatToString(n)

\* a || b on strings: the empty string is falsy
OrElse(a, b) == IF a = EmptyString THEN b ELSE a
\* !x for a string | null state value
Falsy(x) == x = Null \/ x[1] = EmptyString

----------------------------------------------------------------------------
(* The page: initial state (page.tsx 85-123) *)

InitialSlug == <<"n", "f", "l", "-", "b", "u", "f", "-", "h", "o", "u", "-", "2", "0", "2", "5", "-", "1", "1", "-", "2", "0">>
InitialClock == <<"1", "5", ":", "0", "0">>
InitialYardlineLabel == <<"H", "O", "U", " ", "2", "5">>

UIInit ==
  /\ slug = InitialSlug
  /\ side = "home_yes"
  /\ quarter = <<1>>
  /\ clock = InitialClock
  /\ homeScore = <<0>>
  /\ awayScore = <<0>>
  /\ homeHasBall = TRUE
  /\ yardlineLabel = InitialYardlineLabel
  /\ down = <<1>>
  /\ ydstogo = <<10>>
  /\ feeCost = <<10>>
  /\ loading = FALSE
  /\ error = Null
  /\ result = Null
  /\ slugTeams = [team1 |-> DefaultTeam1, team2 |-> DefaultTeam2]
  /\ homeTeam = DefaultTeam1
  /\ awayTeam = DefaultTeam2
  /\ yardlineError = Null
  /\ effectPending = TRUE
  /\ pending = <<>>
  /\ lastOutcome = "none"
  /\ edits = 0

NoCall == [fn |-> "none"]

Init == UIInit /\ call = NoCall /\ ret = Null

----------------------------------------------------------------------------
(* What the user and the network can supply *)

SlugInputs == {<<"n", "f", "l", "-", "h", "o", "u", "-", "b", "u", "f">>, <<"n", "f", "l", "-", "b", "u", "f", "-", "b", "u", "f">>, <<"b", "u", "f">>}
ClockInputs == {<<"0", ":", "3", "0">>, <<"2", "0", ":", "0", "0">>, <<":">>}
YardlineInputs == {<<"H", "O", "U", " ", "3", "6">>, <<"B", "U", "F", " ", "1", "2">>, <<"N", "Y", "J", " ", "1", "0">>, <<"h", "o", "u", " ", "1", "2", "0">>}
\* values of the type=number inputs: the empty string or a number
QuarterInputs == {EmptyString, <<0>>, <<3>>, <<4>>, <<7>>}
ScoreInputs == {EmptyString, <<7>>}
DownInputs == {EmptyString, <<0>>, <<3>>, <<7>>}
YdstogoInputs == {EmptyString, <<0>>, <<5>>}
FeeInputs == {EmptyString, <<0 - 1000>>, <<25>>}

\* err.message of a rejected fetch / body read
NetworkErrors == {<<"Failed to fetch">>}
EVData == {[p_model |-> 62, fair_price |-> 62, market_price |-> 55, fee_cost |-> 1,
            edge_raw |-> 7, edge_after_fees |-> 6, ev_per_contract |-> 6],
           [p_model |-> 40, fair_price |-> 40, market_price |-> 55, fee_cost |-> 1,
            edge_raw |-> 0 - 15, edge_after_fees |-> 0 - 16, ev_per_contract |-> 0 - 16]}
Responses ==
  {[status |-> 200, statusText |-> <<"OK">>, text |-> EmptyString, data |-> d] : d \in EVData}
  \cup {[status |-> 500, statusText |-> <<"Internal Server Error">>,
         text |-> <<"model failed">>, data |-> Null],
        [status |-> 404, statusText |-> <<"Not Found">>, text |-> EmptyString, data |-> Null]}

\* Response.ok
ResponseOk(res) == res.status >= 200 /\ res.status <= 299

----------------------------------------------------------------------------
(* The [slug] effect and the field handlers *)

\* an effect that re-derives the teams and leaves the yardline label alone
SlugEffect_LabelKept ==
  /\ effectPending
  /\ LET parsed == parseTeamsFromSlug(slug)
     IN  /\ slugTeams' = parsed
         /\ homeTeam' = parsed.team1
         /\ awayTeam' = parsed.team2
  /\ effectPending' = FALSE
  /\ UNCHANGED <<slug, side, quarter, clock, homeScore, awayScore, homeHasBall, yardlineLabel,
                 down, ydstogo, feeCost, netVars, pending, lastOutcome, edits, call, ret>>

\* useEffect(..., [slug]), page.tsx 126-134.  React runs a scheduled effect
\* before it handles the next event, so every other action waits for it.
SlugEffect ==
  /\ effectPending
  /\ LET parsed == parseTeamsFromSlug(slug)
     IN  /\ slugTeams' = parsed
         /\ homeTeam' = parsed.team1
         /\ awayTeam' = parsed.team2
         /\ yardlineLabel' = parsed.team1 \o <<" ", "2", "5">>
  /\ effectPending' = FALSE
  /\ UNCHANGED <<slug, side, quarter, clock, homeScore, awayScore, homeHasBall,
                 down, ydstogo, feeCost, netVars, pending, lastOutcome, edits, call, ret>>

\* a field handler runs when the page is idle, and touches only form state
UserEdit ==
  /\ ~effectPending
  /\ UNCHANGED <<netVars, pending, lastOutcome, call, ret>>

\* slug input onChange, page.tsx 238; the effect runs when the value changed
SetSlug(v) ==
  /\ UserEdit
  /\ slug' = v
  /\ effectPending' = (v /= slug)
  /\ UNCHANGED <<side, quarter, clock, homeScore, awayScore, homeHasBall,
                 yardlineLabel, down, ydstogo, feeCost, slugTeams, homeTeam, awayTeam>>

\* a side button that also clears the displayed result
SetSide_ResultCleared(v) ==
  /\ ~effectPending
  /\ side' = v
  /\ result' = Null
  /\ UNCHANGED <<slug, quarter, clock, homeScore, awayScore, homeHasBall, yardlineLabel,
                 down, ydstogo, feeCost, slugTeams, homeTeam, awayTeam, effectPending,
                 loading, error, yardlineError, pending, lastOutcome, call, ret>>

\* side buttons, page.tsx 255 and 266
SetSide(v) ==
  /\ UserEdit
  /\ side' = v
  /\ UNCHANGED <<slug, quarter, clock, homeScore, awayScore, homeHasBall, yardlineLabel,
                 down, ydstogo, feeCost, slugTeams, homeTeam, awayTeam, effectPending>>

\* "<team1> is home" button, page.tsx 289-293
SelectTeam1Home ==
  /\ UserEdit
  /\ homeTeam' = slugTeams.team1
  /\ awayTeam' = slugTeams.team2
  /\ yardlineLabel' = slugTeams.team1 \o <<" ", "2", "5">>
  /\ UNCHANGED <<slug, side, quarter, clock, homeScore, awayScore, homeHasBall,
                 down, ydstogo, feeCost, slugTeams, effectPending>>

\* a button that makes team2 the home team and leaves the away team as it was
SelectTeam2Home_AwayKept ==
  /\ UserEdit
  /\ homeTeam' = slugTeams.team2
  /\ yardlineLabel' = slugTeams.team2 \o <<" ", "2", "5">>
  /\ UNCHANGED <<slug, side, quarter, clock, homeScore, awayScore, homeHasBall, awayTeam,
                 down, ydstogo, feeCost, slugTeams, effectPending>>

\* "<team2> is home" button, page.tsx 304-308
SelectTeam2Home ==
  /\ UserEdit
  /\ homeTeam' = slugTeams.team2
  /\ awayTeam' = slugTeams.team1
  /\ yardlineLabel' = slugTeams.team2 \o <<" ", "2", "5">>
  /\ UNCHANGED <<slug, side, quarter, clock, homeScore, awayScore, homeHasBall,
                 down, ydstogo, feeCost, slugTeams, effectPending>>

\* onChange of a type=number input (page.tsx 357-362 and alike): its value v is
\* "" (stored as "") or a numeral (stored as Number(v), never NaN)
SetQuarter(v) ==
  /\ UserEdit
  /\ quarter' = v
  /\ UNCHANGED <<slug, side, clock, homeScore, awayScore, homeHasBall, yardlineLabel,
                 down, ydstogo, feeCost, slugTeams, homeTeam, awayTeam, effectPending>>

\* clock input onChange, page.tsx 373
SetClock(v) ==
  /\ UserEdit
  /\ clock' = v
  /\ UNCHANGED <<slug, side, quarter, homeScore, awayScore, homeHasBall, yardlineLabel,
                 down, ydstogo, feeCost, slugTeams, homeTeam, awayTeam, effectPending>>

\* away score onChange, page.tsx 396-401
SetAwayScore(v) ==
  /\ UserEdit
  /\ awayScore' = v
  /\ UNCHANGED <<slug, side, quarter, clock, homeScore, homeHasBall, yardlineLabel,
                 down, ydstogo, feeCost, slugTeams, homeTeam, awayTeam, effectPending>>

\* home score onChange, page.tsx 413-418
SetHomeScore(v) ==
  /\ UserEdit
  /\ homeScore' = v
  /\ UNCHANGED <<slug, side, quarter, clock, awayScore, homeHasBall, yardlineLabel,
                 down, ydstogo, feeCost, slugTeams, homeTeam, awayTeam, effectPending>>

\* possession buttons, page.tsx 439 and 451
SetHomeHasBall(v) ==
  /\ UserEdit
  /\ homeHasBall' = v
  /\ UNCHANGED <<slug, side, quarter, clock, homeScore, awayScore, yardlineLabel,
                 down, ydstogo, feeCost, slugTeams, homeTeam, awayTeam, effectPending>>

\* yardline input onChange, page.tsx 472
SetYardlineLabel(v) ==
  /\ UserEdit
  /\ yardlineLabel' = v
  /\ UNCHANGED <<slug, side, quarter, clock, homeScore, awayScore, homeHasBall,
                 down, ydstogo, feeCost, slugTeams, homeTeam, awayTeam, effectPending>>

\* down onChange, page.tsx 498-503
SetDown(v) ==
  /\ UserEdit
  /\ down' = v
  /\ UNCHANGED <<slug, side, quarter, clock, homeScore, awayScore, homeHasBall,
                 yardlineLabel, ydstogo, feeCost, slugTeams, homeTeam, awayTeam, effectPending>>

\* yards-to-go onChange, page.tsx 516-521
SetYdstogo(v) ==
  /\ UserEdit
  /\ ydstogo' = v
  /\ UNCHANGED <<slug, side, quarter, clock, homeScore, awayScore, homeHasBall,
                 yardlineLabel, down, feeCost, slugTeams, homeTeam, awayTeam, effectPending>>

\* fee onChange, page.tsx 538-543
SetFeeCost(v) ==
  /\ UserEdit
  /\ feeCost' = v
  /\ UNCHANGED <<slug, side, quarter, clock, homeScore, awayScore, homeHasBall,
                 yardlineLabel, down, ydstogo, slugTeams, homeTeam, awayTeam, effectPending>>

----------------------------------------------------------------------------
(* handleSubmit, page.tsx 140-206 *)

\* a submit button that is never disabled
SubmitEnabled_Always == TRUE

\* the submit button is disabled while loading, page.tsx 554-560; a disabled
\* default button also blocks the form's implicit submission
SubmitEnabled == ~loading

\* the down without its clamp, and yards-to-go with the wrong fallback
SubmitDown_Unclamped(value) == parseOrDefault(value, 1)
SubmitYdstogo_DefaultOne(value) == MathMax(1, parseOrDefault(value, 1))

\* the quarter clamped from below only
SubmitQuarter_NoUpperClamp(value) == MathMax(1, parseOrDefault(value, 1))

\* page.tsx 148-153: the numbers the payload is built from
SubmitQuarter(value) == MathMin(4, MathMax(1, parseOrDefault(value, 1)))
SubmitHomeScore(value) == parseOrDefault(value, 0)
SubmitAwayScore(value) == parseOrDefault(value, 0)
SubmitDown(value) == MathMin(4, MathMax(1, parseOrDefault(value, 1)))
SubmitYdstogo(value) == MathMax(1, parseOrDefault(value, 10))
SubmitFee(value) == MathMax(0, parseOrDefault(value, 0))

\* a handler that never takes the rejection branch
YardlineRejected_Never(ylParsed) == FALSE

\* page.tsx 160: the label did not parse
YardlineRejected(ylParsed) == ylParsed = Null

\* page.tsx 161-163
YardlineMessage(home, away) ==
  <<"Yardline must look like \"">> \o home \o <<" 36\" or \"">> \o away
    \o <<" 12\" and use one of the two team codes.">>
InvalidYardlineFormat == <<"Invalid yardline format">>
UnknownError == <<"Unknown error">>

\* page.tsx 167-182; yardline_100 keeps the number | null type of ylParsed
Payload(ylParsed) ==
  LET q == SubmitQuarter(quarter)
      hs == SubmitHomeScore(homeScore)
      as == SubmitAwayScore(awayScore)
  IN  [slug |-> slug,
       side |-> side,
       fee_cost |-> SubmitFee(feeCost),
       state |-> [quarter |-> q,
                  seconds_remaining |-> computeSecondsRemaining(q, clock),
                  home_score |-> hs,
                  away_score |-> as,
                  score_diff_home |-> hs - as,
                  home_has_ball |-> IF homeHasBall THEN 1 ELSE 0,
                  yardline_100 |-> ylParsed,
                  down |-> SubmitDown(down),
                  ydstogo |-> SubmitYdstogo(ydstogo)]]

\* the state values the running handler closed over
Closure ==
  [yardlineError |-> yardlineError, quarter |-> quarter, clock |-> clock,
   homeScore |-> homeScore, awayScore |-> awayScore, down |-> down,
   ydstogo |-> ydstogo, feeCost |-> feeCost, yardlineLabel |-> yardlineLabel,
   homeTeam |-> homeTeam, awayTeam |-> awayTeam]

\* page.tsx 197-202: the catch block reads the yardlineError of the render the
\* handler was created in
CatchError(closedYardlineError, message, current) ==
  IF Falsy(closedYardlineError) THEN Some(OrElse(message, UnknownError)) ELSE current

\* a handler that writes the clamped quarter back to the form
handleSubmit_QuarterWrittenBack ==
  /\ ~effectPending
  /\ SubmitEnabled
  /\ LET ylParsed == parseYardlineLabel(yardlineLabel, homeTeam, awayTeam)
     IN  IF YardlineRejected(ylParsed)
         THEN /\ yardlineError' = Some(YardlineMessage(homeTeam, awayTeam))
              /\ error' = CatchError(yardlineError, InvalidYardlineFormat, Null)
              /\ result' = Null
              /\ loading' = FALSE
              /\ pending' = pending
              /\ lastOutcome' = "invalid"
         ELSE /\ error' = Null
              /\ result' = Null
              /\ yardlineError' = Null
              /\ loading' = TRUE
              /\ pending' = Append(pending, [payload |-> Payload(ylParsed),
                                             closure |-> Closure,
                                             pc |-> "fetch",
                                             res |-> Null])
              /\ lastOutcome' = lastOutcome
  /\ quarter' = Some(SubmitQuarter(quarter))
  /\ UNCHANGED <<slug, side, clock, homeScore, awayScore, homeHasBall, yardlineLabel, down,
                 ydstogo, feeCost, slugTeams, homeTeam, awayTeam, effectPending, edits,
                 call, ret>>

\* a handler that does not clear the previous result (no setResult(null))
handleSubmit_ResultKept ==
  /\ ~effectPending
  /\ SubmitEnabled
  /\ LET ylParsed == parseYardlineLabel(yardlineLabel, homeTeam, awayTeam)
     IN  IF YardlineRejected(ylParsed)
         THEN /\ yardlineError' = Some(YardlineMessage(homeTeam, awayTeam))
              /\ error' = CatchError(yardlineError, InvalidYardlineFormat, Null)
              /\ result' = result
              /\ loading' = FALSE
              /\ pending' = pending
              /\ lastOutcome' = "invalid"
         ELSE /\ error' = Null
              /\ result' = result
              /\ yardlineError' = Null
              /\ loading' = TRUE
              /\ pending' = Append(pending, [payload |-> Payload(ylParsed),
                                             closure |-> Closure,
                                             pc |-> "fetch",
                                             res |-> Null])
              /\ lastOutcome' = lastOutcome
  /\ UNCHANGED <<formVars, effectPending, edits, call, ret>>

\* a handler that does not clear the previous error (no setError(null))
handleSubmit_ErrorKept ==
  /\ ~effectPending
  /\ SubmitEnabled
  /\ LET ylParsed == parseYardlineLabel(yardlineLabel, homeTeam, awayTeam)
     IN  IF YardlineRejected(ylParsed)
         THEN /\ yardlineError' = Some(YardlineMessage(homeTeam, awayTeam))
              /\ error' = CatchError(yardlineError, InvalidYardlineFormat, error)
              /\ result' = Null
              /\ loading' = FALSE
              /\ pending' = pending
              /\ lastOutcome' = "invalid"
         ELSE /\ error' = error
              /\ result' = Null
              /\ yardlineError' = Null
              /\ loading' = TRUE
              /\ pending' = Append(pending, [payload |-> Payload(ylParsed),
                                             closure |-> Closure,
                                             pc |-> "fetch",
                                             res |-> Null])
              /\ lastOutcome' = lastOutcome
  /\ UNCHANGED <<formVars, effectPending, edits, call, ret>>

\* the handler from the submit event to its first await, or to its end when
\* the label is rejected (no await is reached: catch and finally run in the event)
handleSubmit ==
  /\ ~effectPending
  /\ SubmitEnabled
  /\ LET ylParsed == parseYardlineLabel(yardlineLabel, homeTeam, awayTeam)
     IN  IF YardlineRejected(ylParsed)
         THEN /\ yardlineError' = Some(YardlineMessage(homeTeam, awayTeam))
              /\ error' = CatchError(yardlineError, InvalidYardlineFormat, Null)
              /\ result' = Null
              /\ loading' = FALSE
              /\ pending' = pending
              /\ lastOutcome' = "invalid"
         ELSE /\ error' = Null
              /\ result' = Null
              /\ yardlineError' = Null
              /\ loading' = TRUE
              /\ pending' = Append(pending, [payload |-> Payload(ylParsed),
                                             closure |-> Closure,
                                             pc |-> "fetch",
                                             res |-> Null])
              /\ lastOutcome' = lastOutcome
  /\ UNCHANGED <<formVars, effectPending, edits, call, ret>>

Remove(seq, i) == SubSeq(seq, 1, i - 1) \o SubSeq(seq, i + 1, Len(seq))

\* a rejected fetch whose handler resets loading at the end of the try block
\* only, so that a failure leaves it set
FetchRejects_LoadingKept(i, message) ==
  /\ ~effectPending
  /\ pending[i].pc = "fetch"
  /\ error' = CatchError(pending[i].closure.yardlineError, message, error)
  /\ pending' = Remove(pending, i)
  /\ lastOutcome' = "failed"
  /\ UNCHANGED <<formVars, loading, result, yardlineError, effectPending, edits, call, ret>>

\* await fetch(...) rejects, page.tsx 184: catch, finally
FetchRejects(i, message) ==
  /\ ~effectPending
  /\ pending[i].pc = "fetch"
  /\ error' = CatchError(pending[i].closure.yardlineError, message, error)
  /\ loading' = FALSE
  /\ pending' = Remove(pending, i)
  /\ lastOutcome' = "failed"
  /\ UNCHANGED <<formVars, result, yardlineError, effectPending, edits, call, ret>>

\* await fetch(...) resolves, page.tsx 184-190: on to res.text() or res.json()
FetchResolves(i, res) ==
  /\ ~effectPending
  /\ pending[i].pc = "fetch"
  /\ pending' = [pending EXCEPT ![i].pc = IF ResponseOk(res) THEN "json" ELSE "text",
                                ![i].res = Some(res)]
  /\ UNCHANGED <<formVars, netVars, lastOutcome, effectPending, edits, call, ret>>

\* page.tsx 192
BackendError(res) ==
  <<"Backend error ">> \o IntToString(res.status) \o <<": ">> \o OrElse(res.text, res.statusText)

\* a handler that sends the request again when the response is not 2xx
TextResolves_Retry(i) ==
  /\ ~effectPending
  /\ pending[i].pc = "text"
  /\ pending' = [pending EXCEPT ![i].pc = "fetch", ![i].res = Null]
  /\ UNCHANGED <<formVars, netVars, lastOutcome, effectPending, edits, call, ret>>

\* await res.text() resolves, page.tsx 191-192: throw, catch, finally
TextResolves(i) ==
  /\ ~effectPending
  /\ pending[i].pc = "text"
  /\ error' = CatchError(pending[i].closure.yardlineError, BackendError(pending[i].res[1]), error)
  /\ loading' = FALSE
  /\ pending' = Remove(pending, i)
  /\ lastOutcome' = "failed"
  /\ UNCHANGED <<formVars, result, yardlineError, effectPending, edits, call, ret>>

\* a handler that stores the Response object instead of its parsed body
JsonResolves_ResponseStored(i) ==
  /\ ~effectPending
  /\ pending[i].pc = "json"
  /\ result' = pending[i].res
  /\ loading' = FALSE
  /\ pending' = Remove(pending, i)
  /\ lastOutcome' = "ok"
  /\ UNCHANGED <<formVars, error, yardlineError, effectPending, edits, call, ret>>

\* await res.json() resolves, page.tsx 195-196, then finally
JsonResolves(i) ==
  /\ ~effectPending
  /\ pending[i].pc = "json"
  /\ result' = pending[i].res[1].data
  /\ loading' = FALSE
  /\ pending' = Remove(pending, i)
  /\ lastOutcome' = "ok"
  /\ UNCHANGED <<formVars, error, yardlineError, effectPending, edits, call, ret>>

\* await res.text() or await res.json() rejects: catch, finally
BodyRejects(i, message) ==
  /\ ~effectPending
  /\ pending[i].pc \in {"text", "json"}
  /\ error' = CatchError(pending[i].closure.yardlineError, message, error)
  /\ loading' = FALSE
  /\ pending' = Remove(pending, i)
  /\ lastOutcome' = "failed"
  /\ UNCHANGED <<formVars, result, yardlineError, effectPending, edits, call, ret>>

----------------------------------------------------------------------------
(* The page as a state machine *)

\* the network settles a suspended handleSubmit
Network ==
  \/ \E i \in 1..Len(pending), m \in NetworkErrors : FetchRejects(i, m)
  \/ \E i \in 1..Len(pending), res \in Responses : FetchResolves(i, res)
  \/ \E i \in 1..Len(pending) : TextResolves(i)
  \/ \E i \in 1..Len(pending) : JsonResolves(i)
  \/ \E i \in 1..Len(pending), m \in NetworkErrors : BodyRejects(i, m)

\* an edit that counts against MaxEdits, and one that does not
Counted == edits < MaxEdits /\ edits' = edits + 1
Uncounted == edits' = edits

\* at most MaxEdits edits of any field, any number of submissions
Next ==
  \/ SlugEffect
  \/ \E v \in SlugInputs : Counted /\ SetSlug(v)
  \/ \E v \in {"home_yes", "home_no"} : Counted /\ SetSide(v)
  \/ Counted /\ SelectTeam1Home
  \/ Counted /\ SelectTeam2Home
  \/ \E v \in QuarterInputs : Counted /\ SetQuarter(v)
  \/ \E v \in ClockInputs : Counted /\ SetClock(v)
  \/ \E v \in ScoreInputs : Counted /\ SetAwayScore(v)
  \/ \E v \in ScoreInputs : Counted /\ SetHomeScore(v)
  \/ \E v \in BOOLEAN : Counted /\ SetHomeHasBall(v)
  \/ \E v \in YardlineInputs : Counted /\ SetYardlineLabel(v)
  \/ \E v \in DownInputs : Counted /\ SetDown(v)
  \/ \E v \in YdstogoInputs : Counted /\ SetYdstogo(v)
  \/ \E v \in FeeInputs : Counted /\ SetFeeCost(v)
  \/ handleSubmit
  \/ Network

Spec == Init /\ [][Next]_vars

\* The user only clears numeric fields and retypes the yardline label, any
\* number of times
ClearingLabels == {<<"B", "U", "F", " ", "1", "2">>, <<"N", "Y", "J", " ", "1", "0">>}

NextClearing ==
  \/ SlugEffect
  \/ Uncounted /\ SetQuarter(EmptyString)
  \/ Uncounted /\ SetAwayScore(EmptyString)
  \/ Uncounted /\ SetHomeScore(EmptyString)
  \/ Uncounted /\ SetDown(EmptyString)
  \/ Uncounted /\ SetYdstogo(EmptyString)
  \/ Uncounted /\ SetFeeCost(EmptyString)
  \/ \E v \in ClearingLabels : Uncounted /\ SetYardlineLabel(v)
  \/ handleSubmit
  \/ Network

SpecClearing == Init /\ [][NextClearing]_vars

\* The user retypes the slug and the yardline label (at most MaxEdits times
\* in all) and submits; every scheduled effect runs and every request settles
NextSettling ==
  \/ SlugEffect
  \/ \E v \in SlugInputs : Counted /\ SetSlug(v)
  \/ \E v \in YardlineInputs : Counted /\ SetYardlineLabel(v)
  \/ handleSubmit
  \/ Network

\* the scheduled effect runs: effectPending goes from TRUE to FALSE, which only
\* a SlugEffect step does
EffectRuns == effectPending /\ effectPending' = FALSE

\* React runs a scheduled effect, and (the proviso of the settling claim) the
\* network settles every request
SpecSettling ==
  Init /\ [][NextSettling]_vars /\ WF_effectPending(EffectRuns) /\ WF_vars(Network)

\* The user retypes the slug, clicks the home buttons and submits, any number
\* of times, and never types a yardline label: the label is always the one the
\* page filled in
ResetSlugs == {<<"n", "f", "l", "-", "h", "o", "u", "-", "b", "u", "f">>,
               <<"n", "f", "l", "-", "b", "u", "f", "-", "b", "u", "f">>,
               <<"n", "f", "l", "-", "-", "b", "u", "f">>,
               <<"n", "f", "l", "-", "n", " ", "y", "-", "b", "u", "f">>,
               <<"b", "u", "f">>}

NextReset ==
  \/ SlugEffect
  \/ \E v \in ResetSlugs : Uncounted /\ SetSlug(v)
  \/ Uncounted /\ SelectTeam1Home
  \/ Uncounted /\ SelectTeam2Home
  \/ handleSubmit
  \/ Network

SpecReset == Init /\ [][NextReset]_vars

----------------------------------------------------------------------------
(* computeSecondsRemaining called directly *)

Pad2(n) == IF n < 10 THEN <<"0">> \o NatToString(n) ELSE NatToString(n)
FormatClockPart(n, padded) == IF padded THEN Pad2(n) ELSE NatToString(n)

ClockAlphabet == {"0", "1", "5", ":", "a", " "}
\* every clock string of at most n characters
RawClocks(n) == UNION {[1..k -> ClockAlphabet] : k \in 0..n}

\* the call's arguments; mm and ss say which numbers a clock was written from
ClockCall(q, clk, m, sec) ==
  [fn |-> "computeSecondsRemaining", quarter |-> q, clock |-> clk, mm |-> m, ss |-> sec]

\* a clock written from two numbers, or any short string
InitClock ==
  /\ UIInit
  /\ ret = Null
  /\ \/ \E q \in 1..MaxQuarter, m \in 0..MaxMinutes, sec \in 0..MaxSeconds,
           pm \in BOOLEAN, ps \in BOOLEAN :
          call = ClockCall(q, FormatClockPart(m, pm) \o <<":">> \o FormatClockPart(sec, ps),
                           Some(m), Some(sec))
     \/ \E q \in 1..MaxQuarter, c \in RawClocks(MaxClockLen) :
          call = ClockCall(q, c, Null, Null)

CallComputeSecondsRemaining ==
  /\ call.fn = "computeSecondsRemaining"
  /\ ret = Null
  /\ ret' = Some(computeSecondsRemaining(call.quarter, call.clock))
  /\ UNCHANGED <<uiVars, call>>

SpecClock == InitClock /\ [][CallComputeSecondsRemaining]_vars

----------------------------------------------------------------------------
(* parseYardlineLabel called directly *)

TeamTokens == {<<"H", "O", "U">>, <<"B", "U", "F">>, <<"N", "Y", "J">>, <<"h", "o", "u">>, <<"B", "u", "f">>}
TeamCodes == {<<"H", "O", "U">>, <<"B", "U", "F">>, <<"T", "E", "A", "M", "1">>}


\* a label written as <TEAM> <yards> (team and yards say which), with the
\* whitespace a user may type around and between the two
InitYardline ==
  /\ UIInit
  /\ ret = Null
  /\ \E t \in TeamTokens, y \in (0 - MaxYards)..MaxYards, h \in TeamCodes, a \in TeamCodes,
        pre \in {<<>>, <<" ">>}, post \in {<<>>, <<" ">>} :
       call = [fn |-> "parseYardlineLabel",
               label |-> pre \o t \o <<" ">> \o pre \o IntToString(y) \o post,
               homeTeam |-> h, awayTeam |-> a, team |-> t, yards |-> y]

\* ret is <<parseYardlineLabel's value>>, so <<Null>> is the failure value
CallParseYardlineLabel ==
  /\ call.fn = "parseYardlineLabel"
  /\ ret = Null
  /\ ret' = Some(parseYardlineLabel(call.label, call.homeTeam, call.awayTeam))
  /\ UNCHANGED <<uiVars, call>>

SpecYardline == InitYardline /\ [][CallParseYardlineLabel]_vars

----------------------------------------------------------------------------
(* parseTeamsFromSlug called directly *)

SlugTokens == {<<"n", "f", "l">>, <<"N", "F", "L">>, <<"b", "u", "f">>, <<"h", "o", "u">>,
               <<"2", "0", "2", "5">>, <<>>}

\* the slug whose hyphen-separated tokens are the given ones (at least one)
RECURSIVE JoinHyphen(_)
JoinHyphen(tokens) ==
  IF Len(tokens) = 1 THEN tokens[1]
  ELSE tokens[1] \o <<"-">> \o JoinHyphen(Tail(tokens))

\* a slug written from one to MaxSlugTokens tokens (tokens says which)
InitSlug ==
  /\ UIInit
  /\ ret = Null
  /\ \E n \in 1..MaxSlugTokens : \E tokens \in [1..n -> SlugTokens] :
       call = [fn |-> "parseTeamsFromSlug", slug |-> JoinHyphen(tokens), tokens |-> tokens]

CallParseTeamsFromSlug ==
  /\ call.fn = "parseTeamsFromSlug"
  /\ ret = Null
  /\ ret' = Some(parseTeamsFromSlug(call.slug))
  /\ UNCHANGED <<uiVars, call>>

SpecSlug == InitSlug /\ [][CallParseTeamsFromSlug]_vars

----------------------------------------------------------------------------
(* The claims *)

LabelParses == parseYardlineLabel(yardlineLabel, homeTeam, awayTeam) /= Null

\* C1: a submission whose yardline label does not parse issues no network
\* request: the handleSubmit step taken from such a state leaves the set of
\* requests in flight as it was.
C1_MalformedLabelSendsNothing ==
  [][(handleSubmit /\ ~LabelParses) => pending' = pending]_vars

\* C1 witness: a submission was rejected for its label and nothing is in flight
C1_Witness ==
  /\ lastOutcome = "invalid"
  /\ ~LabelParses
  /\ yardlineError /= Null
  /\ pending = <<>>

\* C2: a submission that reached the network and failed ends with the
\* page-level error set, whatever the earlier submissions did.
C2_FailedRequestSetsError ==
  (lastOutcome = "failed" /\ ~loading) => error /= Null

\* C3: a submission rejected for its yardline label ends with yardlineError set
\* and the page-level error unset.
C3_RejectedLabelSetsOnlyFieldError ==
  (lastOutcome = "invalid" /\ ~loading) => (yardlineError /= Null /\ error = Null)

\* C4: at most one request is in flight, and while one is, loading is true
\* (the submit button is disabled).
C4_AtMostOneInFlight ==
  /\ Len(pending) <= 1
  /\ Len(pending) = 1 => loading

\* C4 witness: a request is in flight, its response has arrived and its body is
\* being read, and the user has edited a field since it was sent
C4_Witness ==
  /\ Len(pending) = 1
  /\ loading
  /\ pending[1].pc = "json"
  /\ pending[1].closure.clock /= clock

FullQuartersAfter(q) == IF q >= 4 THEN 0 ELSE (4 - q) * 900

\* C5: for a clock written MM:SS from two numbers, computeSecondsRemaining is
\* (MM*60 + SS) + max(0, 4 - q) * 900; quarter 1 at 15:00 is 3600 and quarter 4
\* at 0:30 is 30.
C5_SecondsRemainingFormula ==
  (call.fn = "computeSecondsRemaining" /\ ret /= Null) =>
    /\ call.mm /= Null =>
         ret[1] = (call.mm[1] * 60 + call.ss[1]) + FullQuartersAfter(call.quarter)
    /\ (call.quarter = 1 /\ call.clock = <<"1", "5", ":", "0", "0">>) => ret[1] = 3600
    /\ (call.quarter = 4 /\ call.clock = <<"0", ":", "3", "0">>) => ret[1] = 30

\* C5 witness: quarter 1 at 15:00 was computed
C5_Witness ==
  /\ call.fn = "computeSecondsRemaining"
  /\ call.quarter = 1
  /\ call.clock = <<"1", "5", ":", "0", "0">>
  /\ ret = <<3600>>

\* a part that reads as a number: an optional sign and at least one digit
NumericText(part) ==
  LET t == trim(part)
      body == IF t /= <<>> /\ t[1] \in {"-", "+"} THEN Tail(t) ELSE t
  IN  body /= <<>> /\ \A i \in 1..Len(body) : IsDigit(body[i])

ColonCount(s) == Cardinality({i \in 1..Len(s) : s[i] = ":"})
PartBefore(s) == SubSeq(s, 1, (CHOOSE i \in 1..Len(s) : s[i] = ":") - 1)
PartAfter(s) == SubSeq(s, (CHOOSE i \in 1..Len(s) : s[i] = ":") + 1, Len(s))

\* exactly two colon-separated numeric parts
WellFormedClock(s) ==
  /\ ColonCount(s) = 1
  /\ NumericText(PartBefore(s))
  /\ NumericText(PartAfter(s))

\* C6: a clock string that is not exactly two colon-separated numeric parts
\* (an empty part included) gives 0 for every quarter.
C6_MalformedClockGivesZero ==
  (call.fn = "computeSecondsRemaining" /\ ret /= Null /\ ~WellFormedClock(call.clock)) =>
    ret[1] = 0

\* C7: every payload sent has seconds_remaining in 0..3600.
C7_SecondsRemainingInRange ==
  \A i \in 1..Len(pending) :
    /\ pending[i].payload.state.seconds_remaining >= 0
    /\ pending[i].payload.state.seconds_remaining <= 3600

Clamp0To100(n) == IF n < 0 THEN 0 ELSE IF n > 100 THEN 100 ELSE n
\* the label's team is the code, letter case aside (the codes are upper case)
SameTeam(team, code) == toUpperCase(team) = code

HOU == <<"H", "O", "U">>
BUF == <<"B", "U", "F">>

\* C8 as amended: on a label <TEAM> <yards>, parseYardlineLabel gives yards
\* clamped to [0,100] when TEAM is the home code, 100 - yards clamped when TEAM
\* is the away code and not the home code, and null when it is neither; with
\* home HOU and away BUF, "HOU 36" is 36, "BUF 12" is 88 and "NYJ 10" fails.
C8_YardlineByTeam ==
  (call.fn = "parseYardlineLabel" /\ ret /= Null) =>
    /\ SameTeam(call.team, call.homeTeam) => ret[1] = <<Clamp0To100(call.yards)>>
    /\ (SameTeam(call.team, call.awayTeam) /\ ~SameTeam(call.team, call.homeTeam))
         => ret[1] = <<Clamp0To100(100 - call.yards)>>
    /\ (~SameTeam(call.team, call.homeTeam) /\ ~SameTeam(call.team, call.awayTeam))
         => ret[1] = Null
    /\ (call.homeTeam = HOU /\ call.awayTeam = BUF) =>
         /\ call.label = <<"H", "O", "U", " ", "3", "6">> => ret[1] = <<36>>
         /\ call.label = <<"B", "U", "F", " ", "1", "2">> => ret[1] = <<88>>
         /\ call.label = <<"N", "Y", "J", " ", "1", "0">> => ret[1] = Null

\* C8 as stated: yards clamped when TEAM equals the home code, 100 - yards
\* clamped when TEAM equals the away code, null when it matches neither.
C8_Original ==
  (call.fn = "parseYardlineLabel" /\ ret /= Null) =>
    /\ call.team = call.homeTeam => ret[1] = <<Clamp0To100(call.yards)>>
    /\ call.team = call.awayTeam => ret[1] = <<Clamp0To100(100 - call.yards)>>
    /\ (~SameTeam(call.team, call.homeTeam) /\ ~SameTeam(call.team, call.awayTeam))
         => ret[1] = Null

\* C8 witness: "BUF 12" was parsed with home HOU and away BUF
C8_Witness ==
  /\ call.fn = "parseYardlineLabel"
  /\ call.homeTeam = HOU
  /\ call.awayTeam = BUF
  /\ call.label = <<"B", "U", "F", " ", "1", "2">>
  /\ ret = <<<<88>>>>

\* C9: every payload sent has quarter and down in 1..4, ydstogo >= 1,
\* fee_cost >= 0 and yardline_100 in 0..100; a down of 7 is sent as 4 and a fee
\* of -1 (dollar) as 0.
C9_PayloadWithinBounds ==
  \A i \in 1..Len(pending) :
    LET p == pending[i].payload
        c == pending[i].closure
    IN  /\ p.state.quarter \in 1..4
        /\ p.state.down \in 1..4
        /\ p.state.ydstogo >= 1
        /\ p.fee_cost >= 0
        /\ p.state.yardline_100 /= Null
        /\ p.state.yardline_100[1] \in 0..100
        /\ c.down = <<7>> => p.state.down = 4
        /\ c.feeCost = <<0 - 1000>> => p.fee_cost = 0

\* C9 witness: a request was sent from a form holding down 7 and fee -1
C9_Witness ==
  /\ Len(pending) = 1
  /\ pending[1].closure.down = <<7>>
  /\ pending[1].closure.feeCost = <<0 - 1000>>
  /\ pending[1].payload.state.down = 4
  /\ pending[1].payload.fee_cost = 0

\* C10: a numeric field that is empty at submission is replaced in the payload
\* by its default (quarter 1, scores 0, down 1, yards-to-go 10, fee 0), and the
\* submission is sent all the same.
C10_EmptyFieldsDefaulted ==
  [][(handleSubmit /\ LabelParses) =>
       /\ Len(pending') = Len(pending) + 1
       /\ LET p == pending'[Len(pending')].payload
          IN  /\ quarter = EmptyString => p.state.quarter = 1
              /\ homeScore = EmptyString => p.state.home_score = 0
              /\ awayScore = EmptyString => p.state.away_score = 0
              /\ down = EmptyString => p.state.down = 1
              /\ ydstogo = EmptyString => p.state.ydstogo = 10
              /\ feeCost = EmptyString => p.fee_cost = 0]_vars

\* C10 witness: every numeric field was emptied, and the request in flight
\* carries the six defaults
C10_Witness ==
  /\ quarter = EmptyString /\ homeScore = EmptyString /\ awayScore = EmptyString
  /\ down = EmptyString /\ ydstogo = EmptyString /\ feeCost = EmptyString
  /\ Len(pending) = 1
  /\ pending[1].closure.quarter = EmptyString
  /\ pending[1].closure.feeCost = EmptyString
  /\ pending[1].payload.state.quarter = 1
  /\ pending[1].payload.state.home_score = 0
  /\ pending[1].payload.state.away_score = 0
  /\ pending[1].payload.state.down = 1
  /\ pending[1].payload.state.ydstogo = 10
  /\ pending[1].payload.fee_cost = 0

\* C11: when a response is not 2xx, the submission ends with the page-level
\* error equal to the response's body text, or to its status text when the
\* body is empty, and to nothing more.
C11_ErrorIsBodyText ==
  [][\A i \in 1..Len(pending) :
       TextResolves(i) =>
         error' = Some(OrElse(pending[i].res[1].text, pending[i].res[1].statusText))]_vars

\* a JavaScript boolean, as opposed to a number
IsBoolean(v) == v \notin Int

\* C14: in every payload sent, state.home_has_ball is a boolean.
C14_HomeHasBallIsBoolean ==
  \A i \in 1..Len(pending) : IsBoolean(pending[i].payload.state.home_has_ball)

\* the position of the first token that is "nfl" in any letter case, or 0
FirstNfl(tokens) ==
  IF \E i \in 1..Len(tokens) : toLowerCase(tokens[i]) = <<"n", "f", "l">>
  THEN CHOOSE i \in 1..Len(tokens) :
         /\ toLowerCase(tokens[i]) = <<"n", "f", "l">>
         /\ \A j \in 1..(i - 1) : toLowerCase(tokens[j]) /= <<"n", "f", "l">>
  ELSE 0

TeamPair(a, b) == [team1 |-> toUpperCase(a), team2 |-> toUpperCase(b)]
Placeholders == [team1 |-> <<"T", "E", "A", "M", "1">>, team2 |-> <<"T", "E", "A", "M", "2">>]

\* C12 as amended: parseTeamsFromSlug returns, upper-cased, the two tokens
\* right after the first "nfl" token when at least two tokens follow it;
\* otherwise (no "nfl" token, or fewer than two tokens after it) the second and
\* third tokens of the slug when it has at least three; otherwise TEAM1, TEAM2.
C12_TeamsFromSlug ==
  (call.fn = "parseTeamsFromSlug" /\ ret /= Null) =>
    LET t == call.tokens
        n == Len(t)
        k == FirstNfl(t)
    IN  ret[1] = IF k > 0 /\ k + 2 <= n THEN TeamPair(t[k + 1], t[k + 2])
                 ELSE IF n >= 3 THEN TeamPair(t[2], t[3])
                 ELSE Placeholders

\* C12 as stated: whenever an "nfl" token is present the result is the two
\* tokens after it, or the placeholders when two do not follow; the second and
\* third tokens are used only when no "nfl" token is present.
C12_Original ==
  (call.fn = "parseTeamsFromSlug" /\ ret /= Null) =>
    LET t == call.tokens
        n == Len(t)
        k == FirstNfl(t)
    IN  ret[1] = IF k > 0
                 THEN (IF k + 2 <= n THEN TeamPair(t[k + 1], t[k + 2]) ELSE Placeholders)
                 ELSE IF n >= 3 THEN TeamPair(t[2], t[3])
                 ELSE Placeholders

\* C12 witness: "buf-hou-nfl" was parsed; the "nfl" token has nothing after it
\* and the second and third tokens were returned
C12_Witness ==
  /\ call.fn = "parseTeamsFromSlug"
  /\ call.slug = <<"b", "u", "f", "-", "h", "o", "u", "-", "n", "f", "l">>
  /\ ret = <<[team1 |-> <<"H", "O", "U">>, team2 |-> <<"N", "F", "L">>]>>

\* C13: a submission sends at most one request and none is sent again: a
\* handleSubmit step adds at most one request, and after any other step (an
\* error included) every request waiting on fetch was already waiting on it.
C13_NoRetry ==
  [][/\ handleSubmit => Len(pending') <= Len(pending) + 1
     /\ ~handleSubmit =>
          \A j \in 1..Len(pending') :
            pending'[j].pc = "fetch" => \E k \in 1..Len(pending) : pending[k] = pending'[j]]_vars

\* C13 witness: a request got a 500 response, the submission ended in the
\* error and nothing is in flight
C13_Witness ==
  /\ lastOutcome = "failed"
  /\ error = <<<<"Backend error ", "5", "0", "0", ": ", "model failed">>>>
  /\ pending = <<>>
  /\ ~loading

\* C15: when every request settles, a submission that set loading ends with
\* loading false again, and a submission rejected for its label never leaves
\* it set; loading is true exactly while a request is in flight, only the
\* network's settling resets it, and no submission starts while it is true.
C15_SubmissionSettles ==
  /\ loading ~> ~loading
  /\ [](loading <=> pending /= <<>>)
  /\ [][(handleSubmit /\ ~LabelParses) => ~loading']_vars
  /\ [][(loading /\ ~Network) => loading']_vars
  /\ [][loading => ~handleSubmit]_vars

\* C15 witness: a request has failed, and the form is ready for the next
\* submission
C15_Witness ==
  /\ lastOutcome = "failed"
  /\ ~loading
  /\ pending = <<>>
  /\ SubmitEnabled
  /\ edits = MaxEdits

\* C16 as amended: a submission whose request returns a 2xx response, and whose
\* body is read, ends with result equal to the response data and with error
\* and yardlineError null.
C16_SuccessStoresData ==
  [][\A i \in 1..Len(pending) :
       JsonResolves(i) =>
         /\ pending[i].res /= Null
         /\ ResponseOk(pending[i].res[1])
         /\ result' = pending[i].res[1].data
         /\ error' = Null
         /\ yardlineError' = Null
         /\ ~loading']_vars

\* C16 as stated: every submission whose request returned a 2xx response ends
\* with result equal to the response data and with error and yardlineError null.
C16_Original ==
  [][\A i \in 1..Len(pending) :
       (pending[i].pc = "json" /\ Len(pending') < Len(pending)) =>
         /\ result' = pending[i].res[1].data
         /\ error' = Null
         /\ yardlineError' = Null]_vars

\* C16 witness: after MaxEdits form edits a submission has succeeded and its
\* data is displayed
C16_Witness ==
  /\ lastOutcome = "ok"
  /\ ~loading
  /\ result \in EVData
  /\ error = Null
  /\ yardlineError = Null
  /\ edits = MaxEdits

\* the seconds a well-formed unsigned clock MM:SS shows
InQuarterSeconds(clk) ==
  DecimalValue(trim(PartBefore(clk))) * 60 + DecimalValue(trim(PartAfter(clk)))

\* C17: a request sent from a form whose quarter is greater than 4 carries
\* quarter 4 and, for a clock MM:SS, seconds_remaining = MM*60 + SS with no full
\* quarter added.
C17_OvertimeQuarterClamped ==
  \A i \in 1..Len(pending) :
    LET c == pending[i].closure
        p == pending[i].payload
    IN  (IsNumberValue(c.quarter) /\ c.quarter[1] > 4) =>
          /\ p.state.quarter = 4
          /\ WellFormedClock(c.clock) =>
               p.state.seconds_remaining = InQuarterSeconds(c.clock)

\* C17 witness: quarter 7 at 0:30 was sent as quarter 4 with 30 seconds
C17_Witness ==
  /\ Len(pending) = 1
  /\ pending[1].closure.quarter = <<7>>
  /\ pending[1].closure.clock = <<"0", ":", "3", "0">>
  /\ pending[1].payload.state.quarter = 4
  /\ pending[1].payload.state.seconds_remaining = 30

TEAM1 == <<"T", "E", "A", "M", "1">>
TEAM2 == <<"T", "E", "A", "M", "2">>

\* the two codes of each slug the page is given
ExpectedTeams(s) ==
  CASE s = <<"n", "f", "l", "-", "b", "u", "f", "-", "h", "o", "u", "-", "2", "0", "2", "5", "-", "1", "1", "-", "2", "0">>
         -> <<BUF, HOU>>
    [] s = <<"n", "f", "l", "-", "h", "o", "u", "-", "b", "u", "f">> -> <<HOU, BUF>>
    [] s = <<"n", "f", "l", "-", "b", "u", "f", "-", "b", "u", "f">> -> <<BUF, BUF>>
    [] s = <<"b", "u", "f">> -> <<TEAM1, TEAM2>>

\* C18: a step that changes the slug schedules the effect, nothing else runs
\* before it, and when it has run homeTeam is the first code of the slug,
\* awayTeam the second and the yardline label "<first code> 25", whatever the
\* selection and the label were.
C18_SlugChangeResets ==
  [][/\ (slug' /= slug) => effectPending'
     /\ (effectPending /\ vars' /= vars) =>
          /\ ~effectPending'
          /\ slug' = slug
          /\ slugTeams' = [team1 |-> ExpectedTeams(slug)[1], team2 |-> ExpectedTeams(slug)[2]]
          /\ homeTeam' = ExpectedTeams(slug)[1]
          /\ awayTeam' = ExpectedTeams(slug)[2]
          /\ yardlineLabel' = ExpectedTeams(slug)[1] \o <<" ", "2", "5">>]_vars

\* C18 witness: after two edits, the second a new slug, the teams and the label
\* are those of the new slug
C18_Witness ==
  /\ slug = <<"n", "f", "l", "-", "h", "o", "u", "-", "b", "u", "f">>
  /\ ~effectPending
  /\ edits = 2
  /\ homeTeam = HOU
  /\ awayTeam = BUF
  /\ yardlineLabel = <<"H", "O", "U", " ", "2", "5">>

\* C19: while a submission is running result and error are null, and once a
\* submission has finished nothing of an earlier one is displayed: no result
\* after a failed or rejected submission, no error after a successful one.
C19_PreviousOutcomeCleared ==
  /\ loading => (result = Null /\ error = Null)
  /\ (~loading /\ lastOutcome \in {"failed", "invalid"}) => result = Null
  /\ (~loading /\ lastOutcome = "ok") => error = Null

\* C19 witness: a later submission runs after one that failed with a message
C19_Witness ==
  /\ lastOutcome = "failed"
  /\ loading
  /\ Len(pending) = 1
  /\ result = Null
  /\ error = Null

\* C20: result and error are never both non-null.
C20_ResultAndErrorExclusive ==
  ~(result /= Null /\ error /= Null)

\* C20 witness: a result is displayed, and no error, after a form edit
C20_Witness ==
  /\ result /= Null
  /\ error = Null
  /\ ~loading
  /\ edits >= 1

\* C21: once the slug effect has run, a yardline label that only the page
\* filled in (after a slug change or a click on a home button) parses against
\* the current home and away codes and gives 25, so no submission made then is
\* rejected for its label.
C21_FilledLabelParses ==
  ~effectPending =>
    /\ parseYardlineLabel(yardlineLabel, homeTeam, awayTeam) = <<25>>
    /\ lastOutcome /= "invalid"

\* C22: once the slug effect has run, (homeTeam, awayTeam) is the pair of codes
\* of the current slug, in either order, and slugTeams is that pair.
C22_TeamsOfCurrentSlug ==
  ~effectPending =>
    LET t == ExpectedTeams(slug)
    IN  /\ slugTeams = [team1 |-> t[1], team2 |-> t[2]]
        /\ <<homeTeam, awayTeam>> \in {<<t[1], t[2]>>, <<t[2], t[1]>>}

\* C22 witness: the slug was changed to nfl-hou-buf and the second code was
\* then made the home team
C22_Witness ==
  /\ slug = <<"n", "f", "l", "-", "h", "o", "u", "-", "b", "u", "f">>
  /\ ~effectPending
  /\ homeTeam = BUF
  /\ awayTeam = HOU
  /\ yardlineLabel = <<"B", "U", "F", " ", "2", "5">>

\* C23: a step of a submission (one that changes loading, error, result,
\* yardlineError or the requests in flight) leaves every form field, the slug's
\* codes and the home/away selection as they were.
C23_SubmissionKeepsForm ==
  [][(netVars' /= netVars \/ pending' /= pending) => formVars' = formVars]_vars

\* C23 witness: a form holding quarter 7, down 0 was submitted, quarter 4 and
\* down 1 were sent, and the form still holds 7 and 0
C23_Witness ==
  /\ quarter = <<7>>
  /\ down = <<0>>
  /\ Len(pending) = 1
  /\ pending[1].closure.quarter = <<7>>
  /\ pending[1].payload.state.quarter = 4
  /\ pending[1].payload.state.down = 1

\* C24: a step that changes a form field, the slug's codes or the home/away
\* selection leaves loading, error and result as they were; and a response
\* whose body is read is stored as the result whatever the form holds by then.
C24_EditsKeepOutcome ==
  [][/\ (formVars' /= formVars) =>
          (loading' = loading /\ error' = error /\ result' = result)
     /\ \A i \in 1..Len(pending) :
          (pending[i].pc = "json" /\ lastOutcome' = "ok" /\ pending' = Remove(pending, i))
            => result' = pending[i].res[1].data]_vars

\* C24 witness: a result is displayed although the label the form holds now
\* would be rejected: the label was edited after the request was sent
C24_Witness ==
  /\ result \in EVData
  /\ lastOutcome = "ok"
  /\ ~loading
  /\ ~effectPending
  /\ ~LabelParses

====
